---------------------------- MODULE Spec2Model ----------------------------
(***************************************************************************)
(* Model of the notebook "ML 01 - Data Cleansing": a linear batch pipeline *)
(* over a dataframe engine.  The notebook's variables (raw_df, base_df,    *)
(* fixed_price_df, ...) are the state; every notebook cell that assigns    *)
(* one of them is an action.  The engine operators the cells call          *)
(* (translate, cast, filter, withColumn, Imputer.fit/transform, write) are *)
(* operators of this module, computed as the engine computes them.         *)
(***************************************************************************)
EXTENDS Integers, Sequences, FiniteSets, TLC

VARIABLES
    file,            \* content of the CSV at file_path, as read with inferSchema
    pc,              \* the notebook cell about to run
    raw_df, base_df, fixed_price_df, pos_prices_df, min_nights_df,
    integer_columns, doubles_df, imputer_model, imputed_df,
    working_dir,     \* the Delta table at working_dir
    error,           \* the exception that stopped the run, "" when none
    run,             \* how many times the notebook has been started
    history,         \* cells executed in the current run, in order
    first_out,       \* the Delta table as the first run left it
    text, stripped, parsed, ppc   \* the price rule applied to one text

vars == <<file, pc, raw_df, base_df, fixed_price_df, pos_prices_df,
          min_nights_df, integer_columns, doubles_df, imputer_model,
          imputed_df, working_dir, error, run, history, first_out,
          text, stripped, parsed, ppc>>

pipeVars == <<file, pc, raw_df, base_df, fixed_price_df, pos_prices_df,
              min_nights_df, integer_columns, doubles_df, imputer_model,
              imputed_df, working_dir, error, run, history, first_out>>

priceVars == <<text, stripped, parsed, ppc>>

(***************************************************************************)
(* Bounds of the model.                                                    *)
(***************************************************************************)
MaxRows == 3     \* rows of an enumerated input file
MaxLen  == 3     \* characters of an enumerated price text

(***************************************************************************)
(* Cells of a dataframe.  A double is a decimal m / 10^e kept normalised   *)
(* (no trailing zero in the fraction), NaN, or null; a string is a         *)
(* sequence of characters.                                                 *)
(***************************************************************************)
NULL == [k |-> "null"]
NaN  == [k |-> "nan"]

RECURSIVE Normalise(_, _)
Normalise(m, e) ==
    IF e > 0 /\ m % 10 = 0 THEN Normalise(m \div 10, e - 1)
    ELSE [k |-> "num", m |-> m, e |-> e]

Num(m, e) == Normalise(m, e)
Int32(n)  == [k |-> "int", n |-> n]
Str(s)    == [k |-> "str", s |-> s]

IsNull(v) == v.k = "null"
IsNaN(v)  == v.k = "nan"
IsNum(v)  == v.k = "num"
IsInt(v)  == v.k = "int"

\* cast("double") of an integer cell: the same number, as a double.
CastIntToDouble(v) == IF IsInt(v) THEN Num(v.n, 0) ELSE v

RECURSIVE Pow10(_)
Pow10(n) == IF n = 0 THEN 1 ELSE 10 * Pow10(n - 1)

\* The engine's ordering of doubles: NaN equals NaN and is larger than any
\* other value.  Both arguments are non-null.
\* An integer operand is promoted to double first.
Less(a0, b0) ==
    LET a == CastIntToDouble(a0)
        b == CastIntToDouble(b0)
    IN  IF IsNaN(a) THEN FALSE
        ELSE IF IsNaN(b) THEN TRUE
        ELSE a.m * Pow10(b.e) < b.m * Pow10(a.e)

\* Comparison expressions: null when an operand is null (three-valued).
Gt(a, b)  == IF IsNull(a) \/ IsNull(b) THEN "null"
             ELSE IF Less(b, a) THEN "true" ELSE "false"
LtEq(a, b) == IF IsNull(a) \/ IsNull(b) THEN "null"
              ELSE IF Less(b, a) THEN "false" ELSE "true"
EqTo(a, b) == IF IsNull(a) \/ IsNull(b) THEN "null"
              ELSE IF CastIntToDouble(a) = CastIntToDouble(b) THEN "true"
              ELSE "false"

(***************************************************************************)
(* translate(col, matching, replace): every character of the text found in *)
(* matching is replaced by the character at the same place of replace, and *)
(* removed when replace has no such place.  Null stays null.               *)
(***************************************************************************)
IndexOf(c, s) ==
    IF \E i \in 1..Len(s) : s[i] = c
    THEN CHOOSE i \in 1..Len(s) : s[i] = c /\ \A j \in 1..(i - 1) : s[j] # c
    ELSE 0

RECURSIVE TranslateSeq(_, _, _)
TranslateSeq(s, matching, replace) ==
    IF s = <<>> THEN <<>>
    ELSE LET i    == IndexOf(Head(s), matching)
             rest == TranslateSeq(Tail(s), matching, replace)
         IN  IF i = 0 THEN <<Head(s)>> \o rest
             ELSE IF i <= Len(replace) THEN <<replace[i]>> \o rest
             ELSE rest

translate(v, matching, replace) ==
    IF IsNull(v) THEN NULL ELSE Str(TranslateSeq(v.s, matching, replace))

(***************************************************************************)
(* cast("double") of a string: the text is trimmed and read as a decimal   *)
(* literal, [-+]digits[.digits] with at least one digit, or as NaN         *)
(* (optionally signed).  Any other text gives null; nothing is thrown      *)
(* (non-ANSI cast).                                                        *)
(***************************************************************************)
Digits == <<"0", "1", "2", "3", "4", "5", "6", "7", "8", "9">>
IsDigit(c) == IndexOf(c, Digits) # 0
DigitVal(c) == IndexOf(c, Digits) - 1

RECURSIVE TrimLeft(_)
TrimLeft(s) == IF s # <<>> /\ Head(s) = " " THEN TrimLeft(Tail(s)) ELSE s

RECURSIVE TrimRight(_)
TrimRight(s) ==
    IF s # <<>> /\ s[Len(s)] = " " THEN TrimRight(SubSeq(s, 1, Len(s) - 1)) ELSE s

Trim(s) == TrimRight(TrimLeft(s))

RECURSIVE DigitsVal(_)
DigitsVal(s) ==
    IF s = <<>> THEN 0
    ELSE 10 * DigitsVal(SubSeq(s, 1, Len(s) - 1)) + DigitVal(s[Len(s)])

AllDigits(s) == \A i \in 1..Len(s) : IsDigit(s[i])

\* An unsigned decimal literal: digits, digits.digits, digits. or .digits
IsDecimal(s) ==
    LET dot == IndexOf(".", s)
    IN  IF dot = 0 THEN s # <<>> /\ AllDigits(s)
        ELSE /\ AllDigits(SubSeq(s, 1, dot - 1))
             /\ AllDigits(SubSeq(s, dot + 1, Len(s)))
             /\ Len(s) > 1

DecimalVal(s, sign) ==
    LET dot  == IndexOf(".", s)
        ip   == IF dot = 0 THEN s ELSE SubSeq(s, 1, dot - 1)
        fp   == IF dot = 0 THEN <<>> ELSE SubSeq(s, dot + 1, Len(s))
    IN  Num(sign * DigitsVal(ip \o fp), Len(fp))

ParseDouble(s0) ==
    LET s    == Trim(s0)
        neg  == s # <<>> /\ Head(s) = "-"
        sgn  == s # <<>> /\ Head(s) \in {"-", "+"}
        body == IF sgn THEN Tail(s) ELSE s
    IN  IF body = <<"N", "a", "N">> THEN NaN
        ELSE IF IsDecimal(body) THEN DecimalVal(body, IF neg THEN -1 ELSE 1)
        ELSE NULL

\* Mutant: a text that does not parse counts as 0.
CastStringToDouble_ZeroOnError(v) ==
    IF IsNull(v) THEN NULL
    ELSE IF IsNull(ParseDouble(v.s)) THEN Num(0, 0) ELSE ParseDouble(v.s)

CastStringToDouble(v) == IF IsNull(v) THEN NULL ELSE ParseDouble(v.s)

\* The price expression of fixed_price_df, applied to one cell.
PriceExpr(v) == CastStringToDouble(translate(v, <<"$", ",">>, <<>>))

(***************************************************************************)
(* The price rule on one text: the inputs are every text of at most MaxLen *)
(* characters over Chars, and the texts the documentation names.           *)
(***************************************************************************)
Chars == {"$", ",", ".", "-", "0", "1", "5", "N", "a"}

RECURSIVE TextsOfLen(_)
TextsOfLen(n) ==
    IF n = 0 THEN {<<>>}
    ELSE {<<c>> \o t : c \in Chars, t \in TextsOfLen(n - 1)}

Texts == UNION {TextsOfLen(n) : n \in 0..MaxLen}

T_1200_50 == <<"$", "1", ",", "2", "0", "0", ".", "5", "0">>
T_0       == <<"$", "0">>
T_NA      == <<"N", "/", "A">>
T_100     == <<"$", "1", "0", "0">>
T_50      == <<"$", "5", "0">>
T_75      == <<"$", "7", "5">>
T_free    == <<"f", "r", "e", "e">>
T_neg     == <<"-", "$", "5">>
T_nan     == <<"N", "a", "N">>
T_padded  == <<" ", "$", "5", " ">>

NamedTexts == {T_1200_50, T_0, T_NA, T_100, T_50, T_75, T_free, T_neg, T_nan,
               T_padded}

NoCell == [k |-> "none"]

PriceInit ==
    /\ text \in {Str(t) : t \in Texts \cup NamedTexts} \cup {NULL}
    /\ stripped = NoCell
    /\ parsed = NoCell
    /\ ppc = "translate"

\* translate(col("price"), "$,", "")
Translate ==
    /\ UNCHANGED pipeVars
    /\ ppc = "translate"
    /\ stripped' = translate(text, <<"$", ",">>, <<>>)
    /\ ppc' = "cast"
    /\ UNCHANGED <<text, parsed>>

\* .cast("double")
Cast ==
    /\ UNCHANGED pipeVars
    /\ ppc = "cast"
    /\ parsed' = CastStringToDouble(stripped)
    /\ ppc' = "done"
    /\ UNCHANGED <<text, stripped>>

(***************************************************************************)
(* Dataframes: ordered column names, a type per column, and rows (a cell   *)
(* per column).  ids holds, for every row, its line in the input file; no  *)
(* operator reads it.                                                      *)
(***************************************************************************)
Range(s) == {s[i] : i \in 1..Len(s)}

Unset == [cols |-> <<>>, types |-> <<>>, ids |-> <<>>, rows |-> <<>>]

HasColumns(df, names) == Range(names) \subseteq Range(df.cols)

\* df.select(names)
select(df, names) ==
    [cols  |-> names,
     types |-> [c \in Range(names) |-> df.types[c]],
     ids   |-> df.ids,
     rows  |-> [i \in 1..Len(df.rows) |-> [c \in Range(names) |-> df.rows[i][c]]]]

\* df.withColumn(c, expr): cells[i] is expr on row i.  An existing column is
\* replaced in place, a new one is appended.
withColumn(df, c, ty, cells) ==
    [cols  |-> IF c \in Range(df.cols) THEN df.cols ELSE Append(df.cols, c),
     types |-> (c :> ty) @@ df.types,
     ids   |-> df.ids,
     rows  |-> [i \in 1..Len(df.rows) |-> (c :> cells[i]) @@ df.rows[i]]]

\* Mutant: only a row on which the condition is false is dropped.
filter_KeepNull(df, cond) ==
    LET n   == Len(df.rows)
        idx == SelectSeq([i \in 1..n |-> i], LAMBDA i : cond[i] # "false")
    IN  [cols  |-> df.cols,
         types |-> df.types,
         ids   |-> [j \in 1..Len(idx) |-> df.ids[idx[j]]],
         rows  |-> [j \in 1..Len(idx) |-> df.rows[idx[j]]]]

\* df.filter(cond): the rows on which the condition is true; a row on which
\* it is false or null is dropped.
filter(df, cond) ==
    LET n   == Len(df.rows)
        idx == SelectSeq([i \in 1..n |-> i], LAMBDA i : cond[i] = "true")
    IN  [cols  |-> df.cols,
         types |-> df.types,
         ids   |-> [j \in 1..Len(idx) |-> df.ids[idx[j]]],
         rows  |-> [j \in 1..Len(idx) |-> df.rows[idx[j]]]]

Column(df, c) == [i \in 1..Len(df.rows) |-> df.rows[i][c]]

(***************************************************************************)
(* The notebook's constants.                                               *)
(***************************************************************************)
columns_to_keep ==
    <<"host_is_superhost", "cancellation_policy", "instant_bookable",
      "host_total_listings_count", "neighbourhood_cleansed", "latitude",
      "longitude", "property_type", "room_type", "accommodates", "bathrooms",
      "bedrooms", "beds", "bed_type", "minimum_nights", "number_of_reviews",
      "review_scores_rating", "review_scores_accuracy",
      "review_scores_cleanliness", "review_scores_checkin",
      "review_scores_communication", "review_scores_location",
      "review_scores_value", "price">>

impute_cols ==
    <<"bedrooms", "bathrooms", "beds", "review_scores_rating",
      "review_scores_accuracy", "review_scores_cleanliness",
      "review_scores_checkin", "review_scores_communication",
      "review_scores_location", "review_scores_value">>

MinNightsLimit == 365

(***************************************************************************)
(* Input files, as spark.read.csv(..., inferSchema) returns them: a type   *)
(* per column inferred from the content, and cells of that type.  price is *)
(* read as a string.  Two inferred schemas are covered: in the second the  *)
(* file writes bedrooms and minimum_nights with a decimal point.           *)
(***************************************************************************)
StringCols == {"host_is_superhost", "cancellation_policy", "instant_bookable",
               "neighbourhood_cleansed", "property_type", "room_type",
               "bed_type", "price"}

DoubleColsA == {"host_total_listings_count", "latitude", "longitude",
                "bathrooms"}

DoubleColsB == DoubleColsA \cup {"bedrooms", "minimum_nights"}

file_cols == <<"id">> \o columns_to_keep

TypesOf(doubleCols) ==
    [c \in Range(file_cols) |->
        IF c \in StringCols THEN "string"
        ELSE IF c \in doubleCols THEN "double"
        ELSE "int"]

Schemas == {TypesOf(DoubleColsA), TypesOf(DoubleColsB)}

\* What one row may hold in the columns the pipeline looks at:
\* <<price, minimum_nights, bedrooms, bathrooms>>.
RowChoices ==
    << <<Str(T_100),  Int32(365), Int32(1), NULL>>,
      <<Str(T_100),  Int32(1),   Int32(3), Num(2, 0)>>,
      <<Str(T_75),   Int32(365), NULL,     NaN>>,
      <<Str(T_50),   Int32(1),   Int32(2), Num(15, 1)>>,
      <<Str(T_0),    Int32(1),   Int32(3), Num(2, 0)>>,
      <<Str(T_free), Int32(1),   NULL,     Num(2, 0)>>,
      <<Str(T_neg),  Int32(1),   Int32(1), Num(2, 0)>>,
      <<Str(T_nan),  Int32(1),   Int32(1), Num(2, 0)>>,
      <<NULL,        Int32(1),   Int32(1), Num(2, 0)>>,
      <<Str(T_100),  Int32(366), Int32(3), Num(2, 0)>>,
      <<Str(T_100),  NULL,       Int32(1), Num(2, 0)>> >>

\* The enumerated files list their rows in the order of RowChoices (a row may
\* repeat); ScenarioFile below is not in that order.
RowLists ==
    UNION {{[i \in 1..n |-> RowChoices[idx[i]]] :
               idx \in {f \in [1..n -> 1..Len(RowChoices)] :
                           \A i \in 1..(n - 1) : f[i] <= f[i + 1]}} :
           n \in 0..MaxRows}

AsType(ty, v) == IF ty = "double" THEN CastIntToDouble(v) ELSE v

MkRow(types, ch, id) ==
    [c \in Range(file_cols) |->
        CASE c = "id"             -> Int32(id)
          [] c = "price"          -> ch[1]
          [] c = "minimum_nights" -> AsType(types[c], ch[2])
          [] c = "bedrooms"       -> AsType(types[c], ch[3])
          [] c = "bathrooms"      -> ch[4]
          [] OTHER                -> IF types[c] = "string" THEN Str(<<"t">>)
                                     ELSE AsType(types[c], Int32(9))]

MkFile(types, chs) ==
    [cols  |-> file_cols,
     types |-> types,
     ids   |-> [i \in 1..Len(chs) |-> i],
     rows  |-> [i \in 1..Len(chs) |-> MkRow(types, chs[i], i)]]

\* The documentation's five-row scenario.
ScenarioChoices ==
    << <<Str(T_100),  Int32(1),   Int32(1), Num(2, 0)>>,
       <<Str(T_0),    Int32(2),   Int32(1), Num(2, 0)>>,
       <<Str(T_50),   Int32(400), Int32(1), Num(2, 0)>>,
       <<Str(T_free), Int32(5),   Int32(1), Num(2, 0)>>,
       <<Str(T_75),   Int32(3),   Int32(1), Num(2, 0)>> >>

ScenarioFile == MkFile(TypesOf(DoubleColsA), ScenarioChoices)

\* A file without the beds column.
ShortFile == select(MkFile(TypesOf(DoubleColsA), <<>>),
                    SelectSeq(file_cols, LAMBDA c : c # "beds"))

Files ==
    {MkFile(ty, chs) : ty \in Schemas, chs \in RowLists}
    \cup {ScenarioFile, ShortFile}

(***************************************************************************)
(* The Imputer (strategy "median", missingValue NaN by default).           *)
(***************************************************************************)
missingValue == NaN

\* A cell the Imputer treats as missing: null, or equal to missingValue.
IsMissing(v) == IsNull(v) \/ CastIntToDouble(v) = missingValue

RECURSIVE Insert(_, _)
Insert(v, s) ==
    IF s = <<>> THEN <<v>>
    ELSE IF Less(v, Head(s)) THEN <<v>> \o s
    ELSE <<Head(s)>> \o Insert(v, Tail(s))

RECURSIVE Sort(_)
Sort(s) == IF s = <<>> THEN <<>> ELSE Insert(Head(s), Sort(Tail(s)))

\* Mutant: the largest present value.
Median_Max(present) ==
    LET n == Len(present)
    IN  IF n = 0 THEN NaN ELSE Sort(present)[n]

\* approxQuantile(0.5) of the present values: the value of rank ceil(n / 2)
\* (exact on inputs this small), or NaN when there is none.
Median(present) ==
    LET n == Len(present)
    IN  IF n = 0 THEN NaN ELSE Sort(present)[(n + 1) \div 2]

Present(df, c) ==
    LET cells == [i \in 1..Len(df.rows) |-> CastIntToDouble(df.rows[i][c])]
    IN  SelectSeq(cells, LAMBDA v : ~IsMissing(v))

\* imputer.fit: the surrogate of every input column.
Surrogates(df, inputCols) ==
    [c \in Range(inputCols) |-> Median(Present(df, c))]

\* Mutant: a column without a surrogate is let through.
emptyCols_Ignored(surrogates) == {}

emptyCols(surrogates) == {c \in DOMAIN surrogates : IsNaN(surrogates[c])}

\* The value transform writes for one cell.
Imputed(v, surrogate) == IF IsMissing(v) THEN surrogate ELSE v

RECURSIVE TransformCols(_, _, _)
TransformCols(df, surrogates, inputCols) ==
    IF inputCols = <<>> THEN df
    ELSE LET c   == Head(inputCols)
             out == withColumn(df, c, df.types[c],
                               [i \in 1..Len(df.rows) |->
                                   Imputed(df.rows[i][c], surrogates[c])])
         IN  TransformCols(out, surrogates, Tail(inputCols))

(***************************************************************************)
(* The loops of the notebook.                                              *)
(***************************************************************************)
\* Mutant: only the columns to impute are looked at.
IntegerColumns_ImputeOnly(df) ==
    SelectSeq(impute_cols, LAMBDA c : df.types[c] = "int")

IntegerColumns(df) == SelectSeq(df.cols, LAMBDA c : df.types[c] = "int")

RECURSIVE CastLoop(_, _)
CastLoop(df, cs) ==
    IF cs = <<>> THEN df
    ELSE CastLoop(withColumn(df, Head(cs), "double",
                             [i \in 1..Len(df.rows) |->
                                 CastIntToDouble(df.rows[i][Head(cs)])]),
                  Tail(cs))

\* when(col(c).isNull(), 1.0).otherwise(0.0)
NaFlag(v) == IF IsNull(v) THEN Num(1, 0) ELSE Num(0, 0)

RECURSIVE FlagLoop(_, _)
FlagLoop(df, cs) ==
    IF cs = <<>> THEN df
    ELSE FlagLoop(withColumn(df, Head(cs) \o "_na", "double",
                             [i \in 1..Len(df.rows) |->
                                 NaFlag(df.rows[i][Head(cs)])]),
                  Tail(cs))

\* Mutant: price >= 0.
PricePositive_OrZero(df) ==
    [i \in 1..Len(df.rows) |-> LtEq(Int32(0), df.rows[i]["price"])]

PricePositive(df) == [i \in 1..Len(df.rows) |-> Gt(df.rows[i]["price"], Int32(0))]

\* Mutant: minimum_nights < 365.
NightsWithinLimit_Strict(df) ==
    [i \in 1..Len(df.rows) |->
        Gt(Int32(MinNightsLimit), df.rows[i]["minimum_nights"])]

NightsWithinLimit(df) ==
    [i \in 1..Len(df.rows) |->
        LtEq(df.rows[i]["minimum_nights"], Int32(MinNightsLimit))]

(***************************************************************************)
(* The pipeline: one action per notebook cell that assigns a variable.     *)
(***************************************************************************)
PipeInit ==
    /\ file \in Files
    /\ pc = "load"
    /\ raw_df = Unset /\ base_df = Unset /\ fixed_price_df = Unset
    /\ pos_prices_df = Unset /\ min_nights_df = Unset
    /\ integer_columns = <<>>
    /\ doubles_df = Unset
    /\ imputer_model = <<>>
    /\ imputed_df = Unset
    /\ working_dir = Unset
    /\ error = ""
    /\ run = 1
    /\ history = <<>>
    /\ first_out = Unset

Step(cell, next) ==
    /\ pc = cell
    /\ pc' = next
    /\ history' = Append(history, cell)

\* raw_df = spark.read.csv(file_path, ...)
Load ==
    /\ UNCHANGED priceVars
    /\ Step("load", "select")
    /\ raw_df' = file
    /\ UNCHANGED <<file, base_df, fixed_price_df, pos_prices_df, min_nights_df,
                   integer_columns, doubles_df, imputer_model, imputed_df,
                   working_dir, error, run, first_out>>

\* base_df = raw_df.select(columns_to_keep); a missing column is an
\* AnalysisException.
Select ==
    /\ UNCHANGED priceVars
    /\ pc = "select"
    /\ history' = Append(history, "select")
    /\ IF HasColumns(raw_df, columns_to_keep)
       THEN /\ base_df' = select(raw_df, columns_to_keep)
            /\ pc' = "fix_price"
            /\ error' = error
       ELSE /\ base_df' = base_df
            /\ pc' = "aborted"
            /\ error' = "AnalysisException"
    /\ UNCHANGED <<file, raw_df, fixed_price_df, pos_prices_df, min_nights_df,
                   integer_columns, doubles_df, imputer_model, imputed_df,
                   working_dir, run, first_out>>

\* Mutant: the integer columns are cast together with the price, before the
\* filters.
FixPrice_WithIntegerCast ==
    /\ UNCHANGED priceVars
    /\ Step("fix_price", "filter_price")
    /\ fixed_price_df' =
           CastLoop(withColumn(base_df, "price", "double",
                               [i \in 1..Len(base_df.rows) |->
                                   PriceExpr(base_df.rows[i]["price"])]),
                    IntegerColumns(base_df))
    /\ UNCHANGED <<file, raw_df, base_df, pos_prices_df, min_nights_df,
                   integer_columns, doubles_df, imputer_model, imputed_df,
                   working_dir, error, run, first_out>>

\* fixed_price_df = base_df.withColumn("price", translate(...).cast("double"))
FixPrice ==
    /\ UNCHANGED priceVars
    /\ Step("fix_price", "filter_price")
    /\ fixed_price_df' =
           withColumn(base_df, "price", "double",
                      [i \in 1..Len(base_df.rows) |->
                          PriceExpr(base_df.rows[i]["price"])])
    /\ UNCHANGED <<file, raw_df, base_df, pos_prices_df, min_nights_df,
                   integer_columns, doubles_df, imputer_model, imputed_df,
                   working_dir, error, run, first_out>>

\* pos_prices_df = fixed_price_df.filter(col("price") > 0)
FilterPrice ==
    /\ UNCHANGED priceVars
    /\ Step("filter_price", "filter_nights")
    /\ pos_prices_df' = filter(fixed_price_df, PricePositive(fixed_price_df))
    /\ UNCHANGED <<file, raw_df, base_df, fixed_price_df, min_nights_df,
                   integer_columns, doubles_df, imputer_model, imputed_df,
                   working_dir, error, run, first_out>>

\* min_nights_df = pos_prices_df.filter(col("minimum_nights") <= 365)
FilterNights ==
    /\ UNCHANGED priceVars
    /\ Step("filter_nights", "cast_integers")
    /\ min_nights_df' = filter(pos_prices_df, NightsWithinLimit(pos_prices_df))
    /\ UNCHANGED <<file, raw_df, base_df, fixed_price_df, pos_prices_df,
                   integer_columns, doubles_df, imputer_model, imputed_df,
                   working_dir, error, run, first_out>>

\* integer_columns = [...]; for c in integer_columns: doubles_df = ...cast
CastIntegers ==
    /\ UNCHANGED priceVars
    /\ Step("cast_integers", "flag_nulls")
    /\ integer_columns' = IntegerColumns(min_nights_df)
    /\ doubles_df' = CastLoop(min_nights_df, IntegerColumns(min_nights_df))
    /\ UNCHANGED <<file, raw_df, base_df, fixed_price_df, pos_prices_df,
                   min_nights_df, imputer_model, imputed_df,
                   working_dir, error, run, first_out>>

\* for c in impute_cols: doubles_df = doubles_df.withColumn(c + "_na", ...)
FlagNulls ==
    /\ UNCHANGED priceVars
    /\ Step("flag_nulls", "fit")
    /\ doubles_df' = FlagLoop(doubles_df, impute_cols)
    /\ UNCHANGED <<file, raw_df, base_df, fixed_price_df, pos_prices_df,
                   min_nights_df, integer_columns, imputer_model, imputed_df,
                   working_dir, error, run, first_out>>

\* imputer_model = imputer.fit(doubles_df); a column without any present
\* value is a SparkException ("surrogate cannot be computed").
Fit ==
    /\ UNCHANGED priceVars
    /\ pc = "fit"
    /\ history' = Append(history, "fit")
    /\ LET s == Surrogates(doubles_df, impute_cols)
       IN  IF emptyCols(s) = {}
           THEN /\ imputer_model' = s
                /\ pc' = "transform"
                /\ error' = error
           ELSE /\ imputer_model' = imputer_model
                /\ pc' = "aborted"
                /\ error' = "SparkException"
    /\ UNCHANGED <<file, raw_df, base_df, fixed_price_df, pos_prices_df,
                   min_nights_df, integer_columns, doubles_df, imputed_df,
                   working_dir, run, first_out>>

\* imputed_df = imputer_model.transform(doubles_df)
Transform ==
    /\ UNCHANGED priceVars
    /\ Step("transform", "write")
    /\ imputed_df' = TransformCols(doubles_df, imputer_model, impute_cols)
    /\ UNCHANGED <<file, raw_df, base_df, fixed_price_df, pos_prices_df,
                   min_nights_df, integer_columns, doubles_df, imputer_model,
                   working_dir, error, run, first_out>>

\* Mutant: mode("append").
Overwrite_Append(table, df) ==
    IF table = Unset THEN df
    ELSE [df EXCEPT !.ids = table.ids \o df.ids, !.rows = table.rows \o df.rows]

\* mode("overwrite"): the table holds the written dataset and nothing else.
Overwrite(table, df) == df

\* imputed_df.write.format("delta").mode("overwrite").save(working_dir)
Write ==
    /\ UNCHANGED priceVars
    /\ Step("write", "done")
    /\ working_dir' = Overwrite(working_dir, imputed_df)
    /\ first_out' = IF run = 1 THEN Overwrite(working_dir, imputed_df)
                    ELSE first_out
    /\ UNCHANGED <<file, raw_df, base_df, fixed_price_df, pos_prices_df,
                   min_nights_df, integer_columns, doubles_df, imputer_model,
                   imputed_df, error, run>>

\* The notebook is run once more on the same file, in a fresh session: only
\* the file and the Delta table are kept.
Rerun ==
    /\ UNCHANGED priceVars
    /\ pc \in {"done", "aborted"}
    /\ run < 2
    /\ run' = run + 1
    /\ pc' = "load"
    /\ history' = <<>>
    /\ error' = ""
    /\ raw_df' = Unset /\ base_df' = Unset /\ fixed_price_df' = Unset
    /\ pos_prices_df' = Unset /\ min_nights_df' = Unset
    /\ integer_columns' = <<>>
    /\ doubles_df' = Unset
    /\ imputer_model' = <<>>
    /\ imputed_df' = Unset
    /\ UNCHANGED <<file, working_dir, first_out>>


PriceIdle == text = NULL /\ stripped = NoCell /\ parsed = NoCell /\ ppc = "idle"

PipeIdle ==
    /\ file = Unset
    /\ pc = "idle"
    /\ raw_df = Unset /\ base_df = Unset /\ fixed_price_df = Unset
    /\ pos_prices_df = Unset /\ min_nights_df = Unset
    /\ integer_columns = <<>>
    /\ doubles_df = Unset
    /\ imputer_model = <<>>
    /\ imputed_df = Unset
    /\ working_dir = Unset
    /\ error = ""
    /\ run = 0
    /\ history = <<>>
    /\ first_out = Unset

Init == PipeInit /\ PriceIdle

Next ==
    \/ Load \/ Select \/ FixPrice \/ FilterPrice \/ FilterNights
    \/ CastIntegers \/ FlagNulls \/ Fit \/ Transform \/ Write \/ Rerun

Spec == Init /\ [][Next]_vars

PriceNext == Translate \/ Cast

InitPrice == PriceInit /\ PipeIdle

SpecPrice == InitPrice /\ [][PriceNext]_vars

(***************************************************************************)
(* Properties.                                                             *)
(***************************************************************************)
Ran(cell) == cell \in Range(history)

Rows(df) == 1..Len(df.rows)

Ids(df) == Range(df.ids)

\* The same number, whether held as an integer or as a double.
SameNumber(a, b) == CastIntToDouble(a) = CastIntToDouble(b)

\* In the engine's ordering (NaN is larger than every number).
Positive(v) == ~IsNull(v) /\ Less(Int32(0), v)
AtMostLimit(v) == ~IsNull(v) /\ ~Less(Int32(MinNightsLimit), v)

RowsWithinRules(df) ==
    \A i \in Rows(df) : /\ Positive(df.rows[i]["price"])
                        /\ AtMostLimit(df.rows[i]["minimum_nights"])

\* price and minimum_nights of df are those min_nights_df holds, row by row.
KeepsFiltered(df) ==
    /\ df.ids = min_nights_df.ids
    /\ \A i \in Rows(df) :
          /\ df.rows[i]["price"] = min_nights_df.rows[i]["price"]
          /\ SameNumber(df.rows[i]["minimum_nights"],
                        min_nights_df.rows[i]["minimum_nights"])

One  == Num(1, 0)
Zero == Num(0, 0)

NaName(c) == c \o "_na"

\* C2: in the final dataset c_na is 1.0 exactly for the rows whose value of
\* c was missing (replaced by the imputation) immediately before it, 0.0 for
\* the others, and the imputation does not alter c_na.
C2_FlagIffMissing ==
    Ran("transform") =>
        \A c \in Range(impute_cols) : \A i \in Rows(imputed_df) :
            /\ imputed_df.rows[i][NaName(c)] \in {One, Zero}
            /\ imputed_df.rows[i][NaName(c)] = doubles_df.rows[i][NaName(c)]
            /\ imputed_df.rows[i][NaName(c)] = One
                  <=> IsMissing(doubles_df.rows[i][c])

CountOf(s, P(_)) == Cardinality({i \in 1..Len(s) : P(s[i])})

\* m is one of the values and at least half of them are <= m, at least half
\* are >= m.
IsMedianOf(m, values) ==
    /\ \E i \in 1..Len(values) : SameNumber(values[i], m)
    /\ 2 * CountOf(values, LAMBDA v : ~Less(m, v)) >= Len(values)
    /\ 2 * CountOf(values, LAMBDA v : ~Less(v, m)) >= Len(values)

\* The values of column c that are there: neither null nor NaN.
NonMissing(df, c) ==
    SelectSeq(Column(df, c), LAMBDA v : ~IsNull(v) /\ ~IsNaN(v))

C4_Scenario ==
    file = ScenarioFile =>
        /\ Ran("filter_price") =>
              /\ fixed_price_df.rows[2]["price"] = Zero
              /\ IsNull(fixed_price_df.rows[4]["price"])
              /\ pos_prices_df.ids = <<1, 3, 5>>
        /\ Ran("filter_nights") => min_nights_df.ids = <<1, 5>>
        /\ pc # "aborted"
        /\ pc = "done" => working_dir.ids = <<1, 5>>

C4_Witness == file = ScenarioFile /\ pc = "done" /\ Len(working_dir.rows) = 2

NumericChars == Range(Digits) \cup {".", "-", "+", " "}

\* C5: the price rule removes every "$" and "," and nothing else, then
\* parses: "$1,200.50" gives 1200.50, "$0" gives 0.0, "N/A" gives null; a
\* remainder holding a character no number is written with gives null
\* (unless it is the NaN literal), and the result is 0 only for a remainder
\* whose digits are all 0.  The result is always a value: nothing is thrown.
C5_PriceRule ==
    /\ ppc \in {"cast", "done"} /\ ~IsNull(text) =>
          stripped = Str(SelectSeq(text.s, LAMBDA c : c \notin {"$", ","}))
    /\ ppc = "done" =>
          /\ IsNull(parsed) \/ IsNaN(parsed) \/ IsNum(parsed)
          /\ text = Str(T_1200_50) => parsed = Num(120050, 2)
          /\ text = Str(T_0) => parsed = Zero
          /\ text = Str(T_NA) => IsNull(parsed)
          /\ IsNull(text) => IsNull(parsed)
          /\ (~IsNull(text) /\ ~IsNaN(parsed)
                /\ \E i \in 1..Len(stripped.s) : stripped.s[i] \notin NumericChars)
                => IsNull(parsed)
          /\ (~IsNull(text) /\ \A i \in 1..Len(stripped.s) : ~IsDigit(stripped.s[i]))
                => IsNull(parsed) \/ IsNaN(parsed)
          /\ (IsNum(parsed) /\ parsed.m = 0) =>
                \A i \in 1..Len(stripped.s) :
                    IsDigit(stripped.s[i]) => stripped.s[i] = "0"

C5_Witness ==
    /\ ppc = "done"
    /\ text = Str(T_1200_50)
    /\ stripped = Str(<<"1", "2", "0", "0", ".", "5", "0">>)
    /\ parsed = Num(12005, 1)

C7_TypesAndFlagColumns ==
    /\ Ran("cast_integers") =>
          Range(integer_columns) =
             {c \in Range(columns_to_keep) : file.types[c] = "int"}
    /\ pc = "done" =>
          /\ \A c \in Range(columns_to_keep) :
                file.types[c] = "int" =>
                   /\ working_dir.types[c] = "double"
                   /\ \A i \in Rows(working_dir) : ~IsInt(working_dir.rows[i][c])
          /\ \A c \in Range(columns_to_keep) :
                NaName(c) \in Range(working_dir.cols) <=> c \in Range(impute_cols)
          /\ Range(working_dir.cols) =
                Range(columns_to_keep) \cup {NaName(c) : c \in Range(impute_cols)}
          /\ Len(working_dir.cols) = Len(columns_to_keep) + Len(impute_cols)

C7_Witness ==
    /\ pc = "done"
    /\ file.types["bedrooms"] = "double"
    /\ file.types["accommodates"] = "int"
    /\ "bedrooms" \notin Range(integer_columns)
    /\ Len(working_dir.rows) > 0
    /\ "bedrooms_na" \in Range(working_dir.cols)

HasNoValue(df, c) == NonMissing(df, c) = <<>>

\* C8: when a column of impute_cols has no non-missing value in the
\* outlier-filtered dataset, fit stops the run with an exception: the run
\* never gets to transform or to the write, and nothing is persisted.
C8_EmptyColumnIsFatal ==
    /\ pc \in {"transform", "write", "done"} =>
          \A c \in Range(impute_cols) : ~HasNoValue(min_nights_df, c)
    /\ (pc = "aborted" /\ Ran("fit")) =>
          /\ \E c \in Range(impute_cols) : HasNoValue(min_nights_df, c)
          /\ error = "SparkException"
          /\ ~Ran("transform") /\ ~Ran("write")
          /\ imputed_df = Unset
          /\ working_dir = Unset

C8_Witness ==
    /\ pc = "aborted" /\ Ran("fit")
    /\ Len(min_nights_df.rows) > 0
    /\ HasNoValue(min_nights_df, "bedrooms")
    /\ working_dir = Unset

Before(a, b) ==
    \A i \in 1..Len(history) :
        history[i] = b => \E j \in 1..(i - 1) : history[j] = a

\* C9 as stated: both outlier predicates are applied only after the whole
\* type normalisation, the price rule and the integer-to-double rule.
C9_FiltersAfterIntegerCast ==
    /\ Before("fix_price", "filter_price")
    /\ Before("cast_integers", "filter_price")
    /\ Before("cast_integers", "filter_nights")

CellOrder ==
    <<"load", "select", "fix_price", "filter_price", "filter_nights",
      "cast_integers", "flag_nulls", "fit", "transform", "write">>

\* C9 amended: the cells run in the order load, select, price rule, price
\* filter, minimum_nights filter, integer-to-double rule, null flags, fit,
\* transform, write, none twice in a run; the two filters run after the
\* price rule and before the integer-to-double rule, on columns that still
\* have the types the file was read with.
C9_FiltersBeforeIntegerCast ==
    /\ Len(history) <= Len(CellOrder)
    /\ history = SubSeq(CellOrder, 1, Len(history))
    /\ pc \notin {"done", "aborted"} => pc = CellOrder[Len(history) + 1]
    /\ Ran("filter_nights") =>
          \A c \in Range(columns_to_keep) \ {"price"} :
              /\ pos_prices_df.types[c] = file.types[c]
              /\ min_nights_df.types[c] = file.types[c]

C9_Witness ==
    /\ pc = "cast_integers"
    /\ min_nights_df.types["minimum_nights"] = "int"
    /\ Len(min_nights_df.rows) < Len(fixed_price_df.rows)

Dropped == Ids(fixed_price_df) \ Ids(pos_prices_df)

IdsWhere(df, P(_)) == {df.ids[i] : i \in {j \in Rows(df) : P(df.rows[j]["price"])}}

ZeroOrNegative(v) == IsNum(v) /\ v.m <= 0

\* C10 as stated: the rows the positive-price filter drops are exactly the
\* rows whose parsed price is 0 or negative.
C10_DroppedAreNonPositive ==
    Ran("filter_price") => Dropped = IdsWhere(fixed_price_df, ZeroOrNegative)

\* C10 amended: the rows the positive-price filter drops are exactly the rows
\* whose parsed price is null (no price, or a text that does not parse), 0 or
\* negative; the rows kept are unchanged and in their order.
C10_DroppedAreNonPositiveOrNull ==
    Ran("filter_price") =>
        /\ Dropped = IdsWhere(fixed_price_df,
                              LAMBDA v : IsNull(v) \/ ZeroOrNegative(v))
        /\ \A j \in Rows(pos_prices_df) :
              \E i \in Rows(fixed_price_df) :
                  /\ fixed_price_df.ids[i] = pos_prices_df.ids[j]
                  /\ fixed_price_df.rows[i] = pos_prices_df.rows[j]
        /\ \A j \in 1..(Len(pos_prices_df.ids) - 1) :
              pos_prices_df.ids[j] < pos_prices_df.ids[j + 1]

C10_Witness ==
    /\ Ran("filter_price")
    /\ \E i \in Rows(fixed_price_df) :
          IsNull(fixed_price_df.rows[i]["price"]) /\ fixed_price_df.ids[i] \in Dropped
    /\ \E i \in Rows(fixed_price_df) :
          fixed_price_df.rows[i]["price"] = Zero /\ fixed_price_df.ids[i] \in Dropped
    /\ Len(pos_prices_df.rows) > 0

=============================================================================
